---- MODULE Spec2Model ----
(***************************************************************************)
(* Model of the colour-blind contrast plugin                               *)
(* (src/plugins/cbcontrast/index.js): run() walks the elements of the page *)
(* and calls runOneType once per element and blindness; runOneType builds  *)
(* the combination key, simulates both colours, computes the two-decimal   *)
(* contrast ratio, decides pass/fail and reports or labels through the     *)
(* `combinations` map.                                                     *)
(*                                                                         *)
(* Strings are sequences of one-character strings, so that concatenation,  *)
(* formatting (toFixed, colorToString) and parsing (the numeric coercion   *)
(* of a ratio string) are computed and not assumed.  Real numbers are      *)
(* fixed-point integers: colour channels returned by the simulation in     *)
(* thousandths, luminance in millionths, contrast ratios in thousandths,   *)
(* parsed decimal strings in hundredths, alpha in hundredths.              *)
(***************************************************************************)
EXTENDS Integers, Sequences, FiniteSets, TLC

(* ---- bounds ---- *)
\* longest page (number of elements visited by $("*").each)
MaxElems == 2
\* number of times run() may be started
MaxRuns == 2

(* ---- strings ---- *)
Digits == <<"0", "1", "2", "3", "4", "5", "6", "7", "8", "9">>

HexDigits ==
  <<"0", "1", "2", "3", "4", "5", "6", "7", "8", "9",
    "a", "b", "c", "d", "e", "f">>

\* Number.prototype.toString of a non-negative integer
RECURSIVE IntToString(_)
IntToString(n) ==
  IF n < 10 THEN <<Digits[n + 1]>>
  ELSE IntToString(n \div 10) \o <<Digits[(n % 10) + 1]>>

\* value of a decimal digit character, -1 for any other character
DigitValue(ch) ==
  IF \E d \in 1..10 : Digits[d] = ch
    THEN (CHOOSE d \in 1..10 : Digits[d] = ch) - 1
    ELSE -1

\* lexicographic order of two strings by character code; every character
\* compared here is a digit or ".", and "." sorts before the digits
CharCode(ch) == IF ch = "." THEN 46 ELSE 48 + DigitValue(ch)

RECURSIVE StringLess(_, _)
StringLess(s, t) ==
  IF t = <<>> THEN FALSE
  ELSE IF s = <<>> THEN TRUE
  ELSE IF CharCode(Head(s)) # CharCode(Head(t))
    THEN CharCode(Head(s)) < CharCode(Head(t))
  ELSE StringLess(Tail(s), Tail(t))

(* ---- numbers ---- *)
\* a JavaScript number returned by the simulation: NaN, or a value in
\* thousandths
NaN == [nan |-> TRUE, milli |-> 0]

Num(m) == [nan |-> FALSE, milli |-> m]

\* Math.round(x) in place of x | 0: halves and above go up
ToInt32Rounded(x) ==
  IF x.nan THEN 0
  ELSE IF x.milli >= 0 THEN (x.milli + 500) \div 1000
  ELSE -((-x.milli + 499) \div 1000)

\* x | 0 : ToInt32, NaN becomes 0 and fractions are truncated toward zero.
\* Every value representable here is below 2^31 in magnitude, where the
\* modulo-2^32 wrap of ToInt32 is the identity.
ToInt32(x) ==
  IF x.nan THEN 0
  ELSE IF x.milli >= 0 THEN x.milli \div 1000
  ELSE -((-x.milli) \div 1000)

\* Number.prototype.toFixed(2) of a ratio given in thousandths: round to the
\* nearest hundredth and print two decimals
toFixed2(r) ==
  LET h == (r + 5) \div 10
  IN  IntToString(h \div 100) \o <<".">> \o
      <<Digits[((h \div 10) % 10) + 1], Digits[(h % 10) + 1]>>

\* the numeric coercion of a decimal string ("4.50", "3.0", "21.00"), in
\* hundredths
RECURSIVE ParseInt(_, _)
ParseInt(s, acc) ==
  IF s = <<>> \/ DigitValue(Head(s)) < 0 THEN acc
  ELSE ParseInt(Tail(s), 10 * acc + DigitValue(Head(s)))

RECURSIVE AfterPoint(_)
AfterPoint(s) ==
  IF s = <<>> THEN <<>>
  ELSE IF Head(s) = "." THEN Tail(s)
  ELSE AfterPoint(Tail(s))

ToNumber(s) ==
  LET f  == AfterPoint(s)
      d1 == IF Len(f) >= 1 THEN DigitValue(f[1]) ELSE 0
      d2 == IF Len(f) >= 2 THEN DigitValue(f[2]) ELSE 0
  IN  100 * ParseInt(s, 0) + 10 * d1 + d2

(* ---- colours ---- *)
\* axs.utils.Color: red, green, blue in 0..255, alpha in hundredths
Color(r, g, b, a) == [red |-> r, green |-> g, blue |-> b, alpha |-> a]

Black == Color(0, 0, 0, 100)

White == Color(255, 255, 255, 100)

Grey == Color(149, 149, 149, 100)

NearBlack6 == Color(0, 0, 6, 100)

NearBlack8 == Color(0, 0, 8, 100)

\* a colour record whose red channel lies above 255
OverRed == Color(300, 0, 0, 100)

\* the colours that occur on the pages of the model
Palette == {Black, White, Grey, NearBlack6, NearBlack8}

\* internal names of the simulated deficiencies, as passed to the simulation
\* and concatenated into the key
Protan == <<"p", "r", "o", "t", "a", "n">>

Deutan == <<"d", "e", "u", "t", "a", "n">>

Tritan == <<"t", "r", "i", "t", "a", "n">>

\* [<internal name>, <name used on UI and in styles>]
blindnesses ==
  << <<Protan, "protanopia">>, <<Deutan, "deuteranopia">>,
     <<Tritan, "tritanopia">> >>

\* Number.prototype.toString(16) of a non-negative integer
RECURSIVE IntToHex(_)
IntToHex(n) ==
  IF n < 16 THEN <<HexDigits[n + 1]>>
  ELSE IntToHex(n \div 16) \o <<HexDigits[(n % 16) + 1]>>

\* axs.utils.colorChannelToString: lower-case hex digits, padded to two
colorChannelToString(v) ==
  IF v <= 15 THEN <<"0">> \o IntToHex(v) ELSE IntToHex(v)

\* the decimal text of an alpha given in hundredths ("0", "0.5", "0.25")
AlphaToString(a) ==
  IF a % 100 = 0 THEN IntToString(a \div 100)
  ELSE IF a % 10 = 0
    THEN IntToString(a \div 100) \o <<".", Digits[((a \div 10) % 10) + 1]>>
  ELSE IntToString(a \div 100) \o
       <<".", Digits[((a \div 10) % 10) + 1], Digits[(a % 10) + 1]>>

\* axs.utils.colorToString: "#rrggbb" for an opaque colour, "rgba(r,g,b,a)"
\* otherwise
colorToString(color) ==
  IF color.alpha = 100
    THEN <<"#">> \o colorChannelToString(color.red) \o
         colorChannelToString(color.green) \o
         colorChannelToString(color.blue)
    ELSE <<"r", "g", "b", "a", "(">> \o IntToString(color.red) \o <<",">> \o
         IntToString(color.green) \o <<",">> \o IntToString(color.blue) \o
         <<",">> \o AlphaToString(color.alpha) \o <<")">>

(* ---- simulation ---- *)
\* Blind() of color-blind/lib/blind: the simulated channels of the palette
\* colours as computed by the library's confusion-line transform (values in
\* thousandths; black under tritan divides zero by zero).
blinder(rgb, blindness) ==
  CASE rgb = <<0, 0, 0>> /\ blindness = Protan ->
        [R |-> Num(0), G |-> Num(0), B |-> Num(0)]
    [] rgb = <<255, 255, 255>> /\ blindness = Protan ->
        [R |-> Num(255000), G |-> Num(255000), B |-> Num(254992)]
    [] rgb = <<149, 149, 149>> /\ blindness = Protan ->
        [R |-> Num(150320), G |-> Num(146882), B |-> Num(147245)]
    [] rgb = <<0, 0, 6>> /\ blindness = Protan ->
        [R |-> Num(0), G |-> Num(4261), B |-> Num(8756)]
    [] rgb = <<0, 0, 8>> /\ blindness = Protan ->
        [R |-> Num(0), G |-> Num(4856), B |-> Num(9979)]
    [] rgb = <<300, 0, 0>> /\ blindness = Protan ->
        [R |-> Num(168790), G |-> Num(149688), B |-> Num(35066)]
    [] rgb = <<0, 0, 0>> /\ blindness = Deutan ->
        [R |-> Num(0), G |-> Num(0), B |-> Num(0)]
    [] rgb = <<255, 255, 255>> /\ blindness = Deutan ->
        [R |-> Num(255000), G |-> Num(255000), B |-> Num(254993)]
    [] rgb = <<149, 149, 149>> /\ blindness = Deutan ->
        [R |-> Num(161768), G |-> Num(142964), B |-> Num(149143)]
    [] rgb = <<0, 0, 6>> /\ blindness = Deutan ->
        [R |-> Num(0), G |-> Num(4538), B |-> Num(7433)]
    [] rgb = <<0, 0, 8>> /\ blindness = Deutan ->
        [R |-> Num(0), G |-> Num(5172), B |-> Num(8472)]
    [] rgb = <<300, 0, 0>> /\ blindness = Deutan ->
        [R |-> Num(190142), G |-> Num(141829), B |-> Num(0)]
    [] rgb = <<0, 0, 0>> /\ blindness = Tritan ->
        [R |-> NaN, G |-> NaN, B |-> NaN]
    [] rgb = <<255, 255, 255>> /\ blindness = Tritan ->
        [R |-> Num(254997), G |-> Num(255000), B |-> Num(255000)]
    [] rgb = <<149, 149, 149>> /\ blindness = Tritan ->
        [R |-> Num(149430), G |-> Num(146071), B |-> Num(157470)]
    [] rgb = <<0, 0, 6>> /\ blindness = Tritan ->
        [R |-> Num(0), G |-> Num(4874), B |-> Num(5067)]
    [] rgb = <<0, 0, 8>> /\ blindness = Tritan ->
        [R |-> Num(0), G |-> Num(5555), B |-> Num(5775)]
    [] rgb = <<300, 0, 0>> /\ blindness = Tritan ->
        [R |-> Num(255000), G |-> Num(97938), B |-> Num(96258)]

\* the object blind returns for the channels color the simulation produced
\* and the alpha saved before: each channel | 0, and that alpha
blinded(color, alpha) ==
  [red |-> ToInt32(color.R), green |-> ToInt32(color.G),
   blue |-> ToInt32(color.B), alpha |-> alpha]

\* blind with the returned alpha fixed at 1 instead of carried over
blindOpaque(color, blindness) ==
  LET c == blinder(<<color.red, color.green, color.blue>>, blindness)
  IN  blinded(c, 100)

\* blind(color, blindness): simulate red/green/blue, truncate each channel
\* with | 0 and carry the alpha over
blind(color, blindness) ==
  LET alpha == color.alpha
      c     == blinder(<<color.red, color.green, color.blue>>, blindness)
  IN  blinded(c, alpha)

\* the object the caller passed to blind, as it is after the call: blind
\* reads its fields and rebinds only its own parameter
argumentAfterBlind(color, blindness) == color

(* ---- contrast ---- *)
\* the linearised value of an sRGB channel 0..255, in hundred-thousandths:
\* c/255/12.92 up to 0.03928, ((c/255 + 0.055)/1.055)^2.4 above
LinearTable ==
  <<
    0, 30, 61, 91, 121, 152, 182, 212,
    243, 273, 304, 335, 368, 402, 439, 478,
    518, 561, 605, 651, 700, 750, 802, 857,
    913, 972, 1033, 1096, 1161, 1229, 1298, 1370,
    1444, 1521, 1600, 1681, 1764, 1850, 1938, 2029,
    2122, 2217, 2315, 2416, 2519, 2624, 2732, 2843,
    2956, 3071, 3190, 3310, 3434, 3560, 3689, 3820,
    3955, 4092, 4231, 4374, 4519, 4667, 4817, 4971,
    5127, 5286, 5448, 5613, 5781, 5951, 6125, 6301,
    6480, 6663, 6848, 7036, 7227, 7421, 7619, 7819,
    8022, 8228, 8438, 8650, 8866, 9084, 9306, 9531,
    9759, 9990, 10224, 10462, 10702, 10946, 11193, 11444,
    11697, 11954, 12214, 12477, 12744, 13014, 13287, 13563,
    13843, 14126, 14413, 14703, 14996, 15293, 15593, 15896,
    16203, 16513, 16827, 17144, 17465, 17789, 18116, 18447,
    18782, 19120, 19462, 19807, 20156, 20508, 20864, 21223,
    21586, 21953, 22323, 22697, 23074, 23455, 23840, 24228,
    24620, 25016, 25415, 25818, 26225, 26636, 27050, 27468,
    27889, 28315, 28744, 29177, 29614, 30054, 30499, 30947,
    31399, 31855, 32314, 32778, 33245, 33716, 34191, 34670,
    35153, 35640, 36131, 36625, 37124, 37626, 38133, 38643,
    39157, 39676, 40198, 40724, 41254, 41789, 42327, 42869,
    43415, 43966, 44520, 45079, 45641, 46208, 46778, 47353,
    47932, 48515, 49102, 49693, 50289, 50888, 51492, 52100,
    52712, 53328, 53948, 54572, 55201, 55834, 56471, 57112,
    57758, 58408, 59062, 59720, 60383, 61050, 61721, 62396,
    63076, 63760, 64448, 65141, 65837, 66539, 67244, 67954,
    68669, 69387, 70110, 70838, 71569, 72306, 73046, 73791,
    74540, 75294, 76052, 76815, 77582, 78354, 79130, 79910,
    80695, 81485, 82279, 83077, 83880, 84687, 85499, 86316,
    87137, 87962, 88792, 89627, 90466, 91310, 92158, 93011,
    93869, 94731, 95597, 96469, 97345, 98225, 99110, 100000
  >>

\* axs.utils.calculateLuminance, in millionths
calculateLuminance(color) ==
  (2126 * LinearTable[color.red + 1] + 7152 * LinearTable[color.green + 1] +
   722 * LinearTable[color.blue + 1]) \div 1000

\* axs.utils.flattenColors: alpha-composite fg over bg
flattenColors(fg, bg) ==
  LET mix(f, b) == ((100 - fg.alpha) * b + fg.alpha * f) \div 100
  IN  [red |-> mix(fg.red, bg.red), green |-> mix(fg.green, bg.green),
       blue |-> mix(fg.blue, bg.blue),
       alpha |-> fg.alpha + (bg.alpha * (100 - fg.alpha)) \div 100]

\* axs.utils.calculateContrastRatio, in thousandths:
\* (max(L1, L2) + 0.05) / (min(L1, L2) + 0.05), a translucent foreground
\* being flattened onto the background first
calculateContrastRatio(fgColor, bgColor) ==
  LET fg == IF fgColor.alpha < 100 THEN flattenColors(fgColor, bgColor)
            ELSE fgColor
      fgLuminance == calculateLuminance(fg) + 50000
      bgLuminance == calculateLuminance(bgColor) + 50000
      hi == IF fgLuminance >= bgLuminance THEN fgLuminance ELSE bgLuminance
      lo == IF fgLuminance >= bgLuminance THEN bgLuminance ELSE fgLuminance
  IN  (1000 * hi) \div lo

(* ---- text style and threshold ---- *)
\* the facts of a computed style that decide "large text": the font size in
\* whole pixels (px = -1 when fontSize holds no pixel size) and boldness
Style(px, bold) == [px |-> px, bold |-> bold]

\* axs.utils.isLargeFont: bold text of at least 1.2 times, or any text of at
\* least 1.5 times, the 16px body size; a size it cannot read is not large
isLargeFont(style) ==
  IF style.px < 0 THEN FALSE
  ELSE (style.bold /\ 10 * style.px >= 192) \/ (style.px >= 24)

\* axs.utils.isLowContrast(contrastRatio, style): the ratio string is
\* coerced to a number by the comparisons
isLowContrast(contrastRatio, style) ==
  LET r == ToNumber(contrastRatio)
  IN  r < 300 \/ (~isLargeFont(style) /\ r < 450)

(* ---- runOneType ---- *)
\* The arguments of one call of runOneType (without the combinations map):
\* [el, fgColor, bgColor, style, blindness, blindnessName].  The operators
\* below are the locals that runOneType computes from them.

\* variant: the required ratio ignores the text size
requiredRatioFixed(args) == <<"4", ".", "5">>

\* let requiredRatio = axs.utils.isLargeFont(style) ? "3.0" : "4.5"
requiredRatio(args) ==
  IF isLargeFont(args.style) THEN <<"3", ".", "0">> ELSE <<"4", ".", "5">>

\* variant: the key ends with the font size instead of the required ratio
keyWithFontSize(args) ==
  colorToString(args.fgColor) \o <<"/">> \o colorToString(args.bgColor) \o
  <<"/">> \o args.blindness \o <<"/">> \o
  (IF args.style.px < 0 THEN <<>> ELSE IntToString(args.style.px))

\* variant: the key is built from the two-decimal ratio of the simulated
\* colours instead of the colour strings
keyByRatio(args) ==
  toFixed2(calculateContrastRatio(blind(args.fgColor, args.blindness),
                                  blind(args.bgColor, args.blindness))) \o
  <<"/">> \o args.blindness \o <<"/">> \o requiredRatio(args)

\* variant: the required ratio is left out of the key
keyByColours(args) ==
  colorToString(args.fgColor) \o <<"/">> \o colorToString(args.bgColor) \o
  <<"/">> \o args.blindness

\* let key = colorToString(fgColor) + "/" + colorToString(bgColor) + "/" +
\*           blindness + "/" + requiredRatio
key(args) ==
  colorToString(args.fgColor) \o <<"/">> \o colorToString(args.bgColor) \o
  <<"/">> \o args.blindness \o <<"/">> \o requiredRatio(args)

\* the contrast ratio of the simulated colours before formatting, in
\* thousandths
\* variant: the background colour is not simulated
rawContrastRatioPlainBackground(args) ==
  calculateContrastRatio(blind(args.fgColor, args.blindness), args.bgColor)

rawContrastRatio(args) ==
  calculateContrastRatio(blind(args.fgColor, args.blindness),
                         blind(args.bgColor, args.blindness))

\* let contrastRatio = calculateContrastRatio(fgColor, bgColor).toFixed(2)
contrastRatio(args) == toFixed2(rawContrastRatio(args))

\* variant: the ratio string is compared with the required-ratio string
isSufficientByString(ratioString, style) ==
  ~StringLess(ratioString, requiredRatio([style |-> style]))

\* the branch condition !axs.utils.isLowContrast(contrastRatio, style) for a
\* ratio string and a style
isSufficient(ratioString, style) == ~isLowContrast(ratioString, style)

\* variant: the negation of the branch condition is missing
passedWhenLow(args) == isLowContrast(contrastRatio(args), args.style)

\* whether the call takes the acceptable-contrast branch
passed(args) == isSufficient(contrastRatio(args), args.style)

(* ---- the combinations map ---- *)
\* values stored in the map: `true` for an acceptable combination, the entry
\* returned by this.error for an insufficient one; a missing key reads as
\* undefined
Undefined == [tag |-> "undefined", id |-> 0]

TrueValue == [tag |-> "true", id |-> 0]

ErrorEntry(n) == [tag |-> "error", id |-> n]

EmptyMap == [k \in {} |-> Undefined]

\* combinations[key]
Get(map, k) == IF k \in DOMAIN map THEN map[k] ELSE Undefined

\* combinations[key] = v
Put(map, k, v) == [x \in (DOMAIN map) \cup {k} |-> IF x = k THEN v ELSE map[x]]

\* variant: only the value `true` counts as seen
seenAcceptableOnly(map, k) == Get(map, k).tag = "true"

\* the test !combinations[key] of both branches, negated
seen(map, k) == Get(map, k).tag # "undefined"

\* variant: the acceptable combination is not stored
markAcceptableDropped(map, k) == map

\* combinations[key] = true
markAcceptable(map, k) == Put(map, k, TrueValue)

\* variant: the returned entry is not stored
markInsufficientDropped(map, k, error) == map

\* combinations[key] = error
markInsufficient(map, k, error) == Put(map, k, error)

\* variant: the label is given the flag that the key is known
errorLabelTargetFlag(map, k) == TrueValue

\* the last argument of annotate.errorLabel: combinations[key], read after
\* the map was updated
errorLabelTarget(map, k) == Get(map, k)

(* ---- the page ---- *)
NormalText == Style(16, FALSE)

LargeText == Style(24, FALSE)

BoldText == Style(20, TRUE)

\* a computed style whose fontSize holds no pixel size
UnsizedText == Style(-1, FALSE)

\* an element as run() sees it: why the each-callback returns early ("none"
\* when it does not), and the computed style and colours otherwise
Element(skip, fg, bg, style) ==
  [skip |-> skip, fgColor |-> fg, bgColor |-> bg, style |-> style]

\* the kinds of element a page is built from
ElementPool ==
  << Element("none", Black, White, NormalText),
     Element("none", Grey, White, NormalText),
     Element("none", Grey, White, LargeText),
     Element("none", Grey, White, BoldText),
     Element("none", NearBlack6, Black, NormalText),
     Element("none", NearBlack8, Black, NormalText),
     Element("none", Grey, White, UnsizedText),
     Element("noDirectText", Black, White, NormalText) >>

RECURSIVE SeqsUpTo(_, _)
SeqsUpTo(S, n) ==
  IF n = 0 THEN {<<>>}
  ELSE LET shorter == SeqsUpTo(S, n - 1)
       IN  shorter \cup {Append(q, x) : q \in shorter, x \in S}

Pages == SeqsUpTo(DOMAIN ElementPool, MaxElems) \ {<<>>}

(* ---- state ---- *)
VARIABLES
  page,          \* the elements of the document, in $("*") order
  pc,            \* "idle", "running" (inside run()), "thrown"
  i,             \* index of the element the each-loop is at
  b,             \* index into blindnesses of the next runOneType call
  combinations,  \* the map created by run()
  errors,        \* entries created by this.error during this run
  labels,        \* annotate.label / annotate.errorLabel calls of this run
  evaluations,   \* history: the runOneType calls of this run
  parseColor,    \* axs.utils.parseColor: number of proxies wrapped around
                 \* the original parser
  savedParseColor, \* const _parseColor of the current run
  runs,          \* number of run() calls started
  completed,     \* number of run() calls that returned normally
  prevErrors,    \* errors of the last run that returned normally
  prevLabels,    \* labels of the last run that returned normally
  thrownKey,     \* history: key being reported when this.error threw
  decision,      \* one threshold decision on its own: a ratio, a style and
                 \* what the code computes from them
  simulation,    \* one blind call on its own: the colour object passed,
                 \* the channels the simulation produces, what is returned
  evaluation     \* one computation of the contrast of a colour pair on its
                 \* own, and of the same pair the other way round

vars ==
  <<page, pc, i, b, combinations, errors, labels, evaluations, parseColor,
    savedParseColor, runs, completed, prevErrors, prevLabels, thrownKey,
    decision, simulation, evaluation>>

NoDecision ==
  [raw |-> 0, style |-> NormalText, contrastRatio |-> <<>>,
   requiredRatio |-> <<>>, passed |-> FALSE, done |-> FALSE]

NoSimulation ==
  [color |-> Black, given |-> Black, blindness |-> Protan,
   transform |-> [R |-> Num(0), G |-> Num(0), B |-> Num(0)],
   library |-> TRUE, result |-> Black, done |-> FALSE]

NoEvaluation ==
  [fgColor |-> Black, bgColor |-> Black, style |-> NormalText, blindness |-> 1,
   sample |-> <<>>, swapped |-> <<>>, combinations |-> EmptyMap,
   reports |-> <<>>, labelled |-> FALSE, threw |-> FALSE, done |-> FALSE]

Init ==
  /\ page \in Pages
  /\ pc = "idle"
  /\ i = 1
  /\ b = 1
  /\ combinations = EmptyMap
  /\ errors = <<>>
  /\ labels = <<>>
  /\ evaluations = <<>>
  /\ parseColor = 0
  /\ savedParseColor = 0
  /\ runs = 0
  /\ completed = 0
  /\ prevErrors = <<>>
  /\ prevLabels = <<>>
  /\ thrownKey = <<>>
  /\ decision = NoDecision
  /\ simulation = NoSimulation
  /\ evaluation = NoEvaluation

\* the arguments run() passes to runOneType for element n and blindness t
Args(n, t) ==
  [el |-> n,
   fgColor |-> ElementPool[page[n]].fgColor,
   bgColor |-> ElementPool[page[n]].bgColor,
   style |-> ElementPool[page[n]].style,
   blindness |-> blindnesses[t][1],
   blindnessName |-> blindnesses[t][2]]

\* addError: the template data handed to this.error, with the element
addError(args) ==
  [fgColorHex |-> colorToString(blind(args.fgColor, args.blindness)),
   bgColorHex |-> colorToString(blind(args.bgColor, args.blindness)),
   contrastRatio |-> contrastRatio(args),
   requiredRatio |-> requiredRatio(args),
   blindness |-> args.blindnessName,
   el |-> args.el,
   key |-> key(args)]

\* history record of one runOneType call
Sample(args) ==
  [el |-> args.el, fgColor |-> args.fgColor, bgColor |-> args.bgColor,
   style |-> args.style, blindness |-> args.blindness,
   raw |-> rawContrastRatio(args),
   contrastRatio |-> contrastRatio(args),
   requiredRatio |-> requiredRatio(args),
   key |-> key(args), passed |-> passed(args)]

(* ---- axs.utils.parseColor ---- *)
\* colour strings of computed styles
ColorStrings ==
  {"transparent", "rgb(0, 0, 0)", "rgb(255, 255, 255)",
   "rgb(149, 149, 149)", "rgba(0, 0, 0, 0)", "rgba(149, 149, 149, 0.5)"}

\* what a parser returns for a string it cannot parse
NoColor == Color(-1, -1, -1, -1)

\* the parser of the library: rgb(...) and rgba(...) strings
originalParseColor(colorString) ==
  CASE colorString = "rgb(0, 0, 0)" -> Black
    [] colorString = "rgb(255, 255, 255)" -> White
    [] colorString = "rgb(149, 149, 149)" -> Grey
    [] colorString = "rgba(0, 0, 0, 0)" -> Color(0, 0, 0, 0)
    [] colorString = "rgba(149, 149, 149, 0.5)" -> Color(149, 149, 149, 50)
    [] OTHER -> NoColor

\* axs.utils.parseColor when depth proxies of run() are wrapped around the
\* parser of the library: each proxy answers "transparent" itself and hands
\* every other string to the parser it saved
RECURSIVE parseColorAt(_, _)
parseColorAt(depth, colorString) ==
  IF depth = 0 THEN originalParseColor(colorString)
  ELSE IF colorString = "transparent" THEN Color(0, 0, 0, 0)
  ELSE parseColorAt(depth - 1, colorString)

(* ---- run() ---- *)
\* variant: the map outlives the run
RunStartSharedMap ==
  /\ pc \in {"idle", "thrown"}
  /\ runs < MaxRuns
  /\ runs' = runs + 1
  /\ savedParseColor' = parseColor
  /\ parseColor' = parseColor + 1
  /\ errors' = <<>>
  /\ labels' = <<>>
  /\ evaluations' = <<>>
  /\ pc' = "running"
  /\ i' = 1
  /\ b' = 1
  /\ UNCHANGED <<page, combinations, completed, prevErrors, prevLabels,
                 thrownKey, decision, simulation, evaluation>>

\* run() up to the each-loop: install the parseColor proxy and create the
\* combinations map
RunStart ==
  /\ pc \in {"idle", "thrown"}
  /\ runs < MaxRuns
  /\ runs' = runs + 1
  /\ savedParseColor' = parseColor
  /\ parseColor' = parseColor + 1
  /\ combinations' = EmptyMap
  /\ errors' = <<>>
  /\ labels' = <<>>
  /\ evaluations' = <<>>
  /\ pc' = "running"
  /\ i' = 1
  /\ b' = 1
  /\ UNCHANGED <<page, completed, prevErrors, prevLabels, thrownKey,
                 decision, simulation, evaluation>>

\* the each-callback returns early for an element that is not checked
SkipElement ==
  /\ pc = "running"
  /\ i <= Len(page)
  /\ ElementPool[page[i]].skip # "none"
  /\ i' = i + 1
  /\ UNCHANGED <<page, pc, b, combinations, errors, labels, evaluations,
                 parseColor, savedParseColor, runs, completed, prevErrors,
                 prevLabels, thrownKey,
                 decision, simulation, evaluation>>

\* variant: the loop over the blindnesses stops one entry early
AdvanceStopsEarly ==
  IF b < Len(blindnesses) - 1 THEN i' = i /\ b' = b + 1
  ELSE i' = i + 1 /\ b' = 1

\* for (var blindness of blindnesses): the position after one call
Advance ==
  IF b < Len(blindnesses) THEN i' = i /\ b' = b + 1
  ELSE i' = i + 1 /\ b' = 1

\* one call of runOneType that returns normally
RunOneType ==
  /\ pc = "running"
  /\ i <= Len(page)
  /\ ElementPool[page[i]].skip = "none"
  /\ LET args == Args(i, b)
         k    == key(args)
     IN  /\ IF passed(args)
              THEN IF ~seen(combinations, k)
                     THEN /\ labels' = Append(labels,
                                [kind |-> "label", el |-> args.el,
                                 text |-> contrastRatio(args),
                                 error |-> Undefined, key |-> k])
                          /\ combinations' = markAcceptable(combinations, k)
                          /\ errors' = errors
                     ELSE UNCHANGED <<labels, combinations, errors>>
              ELSE LET isNew == ~seen(combinations, k)
                       error == ErrorEntry(Len(errors) + 1)
                       map   == IF isNew
                                  THEN markInsufficient(combinations, k, error)
                                  ELSE combinations
                   IN  /\ errors' = IF isNew
                                      THEN Append(errors, addError(args))
                                      ELSE errors
                       /\ combinations' = map
                       /\ labels' = Append(labels,
                             [kind |-> "errorLabel", el |-> args.el,
                              text |-> contrastRatio(args),
                              error |-> errorLabelTarget(map, k), key |-> k])
         /\ evaluations' = Append(evaluations, Sample(args))
  /\ Advance
  /\ UNCHANGED <<page, pc, parseColor, savedParseColor, runs, completed,
                 prevErrors, prevLabels, thrownKey,
                 decision, simulation, evaluation>>

\* variant: the key is marked before the report is made
mapMarkedBeforeReport(map, k) == Put(map, k, TrueValue)

\* the effect on the map of a runOneType call in which this.error throws:
\* the assignment combinations[key] = error is not reached
mapAfterThrow(map, k) == map

\* one call of runOneType in which this.error throws: the exception leaves
\* runOneType, the each-loop and run()
RunOneTypeThrows ==
  /\ pc = "running"
  /\ i <= Len(page)
  /\ ElementPool[page[i]].skip = "none"
  /\ LET args == Args(i, b)
     IN  /\ ~passed(args)
         /\ ~seen(combinations, key(args))
         /\ combinations' = mapAfterThrow(combinations, key(args))
         /\ thrownKey' = key(args)
  /\ pc' = "thrown"
  /\ UNCHANGED <<page, i, b, errors, labels, evaluations, parseColor,
                 savedParseColor, runs, completed, prevErrors, prevLabels,
                 decision, simulation, evaluation>>

\* variant: run() returns without restoring parseColor
RunEndKeepsProxy ==
  /\ pc = "running"
  /\ i > Len(page)
  /\ pc' = "idle"
  /\ completed' = completed + 1
  /\ prevErrors' = errors
  /\ prevLabels' = labels
  /\ UNCHANGED <<page, i, b, combinations, errors, labels, evaluations,
                 parseColor, savedParseColor, runs, thrownKey,
                 decision, simulation, evaluation>>

\* run() after the each-loop: restore parseColor and return
RunEnd ==
  /\ pc = "running"
  /\ i > Len(page)
  /\ parseColor' = savedParseColor
  /\ pc' = "idle"
  /\ completed' = completed + 1
  /\ prevErrors' = errors
  /\ prevLabels' = labels
  /\ UNCHANGED <<page, i, b, combinations, errors, labels, evaluations,
                 savedParseColor, runs, thrownKey,
                 decision, simulation, evaluation>>

Next ==
  \/ RunStart
  \/ SkipElement
  \/ RunOneType
  \/ RunOneTypeThrows
  \/ RunEnd

Spec == Init /\ [][Next]_vars

(* ---- the threshold decision on its own ---- *)
\* ratios before formatting, in thousandths: 1.000 up to 21.000
RawRatios == 1000..21000

\* computed styles: pixel sizes around both large-text limits, bold or not,
\* and a style without a pixel size
Styles ==
  {Style(px, bold) : px \in {-1, 12, 16, 19, 20, 23, 24, 32},
                     bold \in BOOLEAN}

InitDecision ==
  /\ page = <<1>>
  /\ pc = "idle"
  /\ i = 1
  /\ b = 1
  /\ combinations = EmptyMap
  /\ errors = <<>>
  /\ labels = <<>>
  /\ evaluations = <<>>
  /\ parseColor = 0
  /\ savedParseColor = 0
  /\ runs = 0
  /\ completed = 0
  /\ prevErrors = <<>>
  /\ prevLabels = <<>>
  /\ thrownKey = <<>>
  /\ decision \in {[NoDecision EXCEPT !.raw = r, !.style = s] :
                     r \in RawRatios, s \in Styles}
  /\ simulation = NoSimulation
  /\ evaluation = NoEvaluation

\* lines 59-60 and 71-74 of runOneType applied to a ratio and a style
Decide ==
  /\ ~decision.done
  /\ decision' =
       [decision EXCEPT
          !.contrastRatio = toFixed2(decision.raw),
          !.requiredRatio = requiredRatio([style |-> decision.style]),
          !.passed = isSufficient(toFixed2(decision.raw), decision.style),
          !.done = TRUE]
  /\ UNCHANGED <<page, pc, i, b, combinations, errors, labels, evaluations,
                 parseColor, savedParseColor, runs, completed, prevErrors,
                 prevLabels, thrownKey, simulation, evaluation>>

NextDecision == Decide

SpecDecision == InitDecision /\ [][NextDecision]_vars

(* ---- blind on its own ---- *)
\* the variables of run()
runVars ==
  <<page, pc, i, b, combinations, errors, labels, evaluations, parseColor,
    savedParseColor, runs, completed, prevErrors, prevLabels, thrownKey>>

\* run() has not been called
NoRun ==
  /\ page = <<1>>
  /\ pc = "idle"
  /\ i = 1
  /\ b = 1
  /\ combinations = EmptyMap
  /\ errors = <<>>
  /\ labels = <<>>
  /\ evaluations = <<>>
  /\ parseColor = 0
  /\ savedParseColor = 0
  /\ runs = 0
  /\ completed = 0
  /\ prevErrors = <<>>
  /\ prevLabels = <<>>
  /\ thrownKey = <<>>

\* alphas, in hundredths, of the colour objects passed to blind
Alphas == {0, 25, 50, 75, 100}

\* colour objects passed to blind
SimulatedColors ==
  {Color(c.red, c.green, c.blue, a) : c \in Palette, a \in Alphas}

\* values of one channel of a transform result: not a number, below zero
\* (whole and fractional), inside 0..255 (whole and fractional), above 255
ChannelResults ==
  {NaN, Num(-3500), Num(-500), Num(0), Num(127500), Num(254992),
   Num(255000), Num(300700)}

\* blind is applied either to what the library computes for the colour, or
\* to a transform result drawn from ChannelResults
InitBlind ==
  /\ NoRun
  /\ decision = NoDecision
  /\ evaluation = NoEvaluation
  /\ simulation \in
       {[NoSimulation EXCEPT
           !.color = c, !.given = c, !.blindness = t[1],
           !.transform =
              blinder(<<c.red, c.green, c.blue>>, t[1])] :
          c \in SimulatedColors,
          t \in {blindnesses[n] : n \in DOMAIN blindnesses}}
       \cup
       {[NoSimulation EXCEPT
           !.color = c, !.given = c, !.blindness = t[1], !.library = FALSE,
           !.transform = [R |-> x, G |-> y, B |-> z]] :
          c \in {White, Color(149, 149, 149, 50)},
          t \in {blindnesses[n] : n \in DOMAIN blindnesses},
          x \in ChannelResults, y \in ChannelResults,
          z \in ChannelResults}

\* one call of blind (lines 41-54)
Simulate ==
  /\ ~simulation.done
  /\ simulation' =
       [simulation EXCEPT
          !.result =
             IF simulation.library
               THEN blind(simulation.color, simulation.blindness)
               ELSE blinded(simulation.transform, simulation.color.alpha),
          !.color =
             argumentAfterBlind(simulation.color, simulation.blindness),
          !.done = TRUE]
  /\ UNCHANGED <<runVars, decision, evaluation>>

NextBlind == Simulate

SpecBlind == InitBlind /\ [][NextBlind]_vars

(* ---- runOneType on its own ---- *)
\* colour records passed to runOneType: the palette, and one whose red
\* channel is above 255
EvaluatedColors == Palette \cup {OverRed}

\* the computed styles of the elements of the pool
EvaluatedStyles == {NormalText, LargeText, BoldText, UnsizedText}

InitEvaluate ==
  /\ NoRun
  /\ decision = NoDecision
  /\ simulation = NoSimulation
  /\ evaluation \in
       {[NoEvaluation EXCEPT
           !.fgColor = f, !.bgColor = g, !.style = st, !.blindness = t] :
          f \in EvaluatedColors, g \in EvaluatedColors,
          st \in EvaluatedStyles, t \in DOMAIN blindnesses}

\* the arguments of the call, and of the call with the two colours exchanged
EvaluateArgs(f, g) ==
  [el |-> 1, fgColor |-> f, bgColor |-> g, style |-> evaluation.style,
   blindness |-> blindnesses[evaluation.blindness][1],
   blindnessName |-> blindnesses[evaluation.blindness][2]]

\* one call of runOneType with an empty map (lines 56-110), and the ratio
\* and decision (lines 57-74) of the same call with the colours exchanged
Evaluate ==
  /\ ~evaluation.done
  /\ LET args == EvaluateArgs(evaluation.fgColor, evaluation.bgColor)
         back == EvaluateArgs(evaluation.bgColor, evaluation.fgColor)
         k    == key(args)
     IN  evaluation' =
           [evaluation EXCEPT
              !.sample = Sample(args),
              !.swapped = Sample(back),
              !.combinations =
                 IF passed(args)
                   THEN markAcceptable(EmptyMap, k)
                   ELSE markInsufficient(EmptyMap, k, ErrorEntry(1)),
              !.reports =
                 IF passed(args) THEN <<>> ELSE <<addError(args)>>,
              !.labelled = TRUE,
              !.threw = FALSE,
              !.done = TRUE]
  /\ UNCHANGED <<runVars, decision, simulation>>

NextEvaluate == Evaluate

SpecEvaluate == InitEvaluate /\ [][NextEvaluate]_vars

(* ---- properties ---- *)
Evals == DOMAIN evaluations

FailingEvals == {e \in Evals : ~evaluations[e].passed}

PassingEvals == {e \in Evals : evaluations[e].passed}

SuccessLabels == {l \in DOMAIN labels : labels[l].kind = "label"}

ErrorLabels == {l \in DOMAIN labels : labels[l].kind = "errorLabel"}

FailingKeys == {evaluations[e].key : e \in FailingEvals}

PassingKeys == {evaluations[e].key : e \in PassingEvals}

\* the first runOneType call of this run that produced key k
FirstEval(k) ==
  CHOOSE e \in Evals :
    /\ evaluations[e].key = k
    /\ \A f \in Evals : evaluations[f].key = k => e <= f

IsFailing(e) == ~e.passed

IsErrorLabel(l) == l.kind = "errorLabel"

\* C1: within one run the report function is invoked exactly once per
\* distinct failing key, however often the key recurs, and every error label
\* of that key is linked to the handle that single invocation returned.
C1_ReportOncePerFailingKey ==
  /\ \A m, n \in DOMAIN errors : errors[m].key = errors[n].key => m = n
  /\ {errors[m].key : m \in DOMAIN errors} = FailingKeys
  /\ \A l \in ErrorLabels :
       /\ labels[l].error.tag = "error"
       /\ labels[l].error.id \in DOMAIN errors
       /\ errors[labels[l].error.id].key = labels[l].key
  /\ \A l1, l2 \in ErrorLabels :
       labels[l1].key = labels[l2].key => labels[l1].error = labels[l2].error

\* a failing key has occurred on two different elements and is reported once
C1_Witness ==
  \E e1, e2 \in FailingEvals :
    /\ evaluations[e1].el # evaluations[e2].el
    /\ evaluations[e1].key = evaluations[e2].key
    /\ Cardinality({m \in DOMAIN errors :
                      errors[m].key = evaluations[e1].key}) = 1

\* C2: the success label is applied exactly once per distinct passing key,
\* on the first element that produced the key; later passing occurrences
\* add no label, no report and no map entry.
C2_SuccessLabelOncePerPassingKey ==
  /\ \A l1, l2 \in SuccessLabels : labels[l1].key = labels[l2].key => l1 = l2
  /\ {labels[l].key : l \in SuccessLabels} = PassingKeys
  /\ \A l \in SuccessLabels :
       /\ labels[l].el = evaluations[FirstEval(labels[l].key)].el
       /\ labels[l].text = evaluations[FirstEval(labels[l].key)].contrastRatio
  /\ Len(labels) = Cardinality(PassingKeys) + Cardinality(FailingEvals)
  /\ Len(errors) = Cardinality(FailingKeys)
  /\ DOMAIN combinations = PassingKeys \cup FailingKeys
  /\ \A k \in PassingKeys : combinations[k] = TrueValue

\* a passing key has occurred on two different elements and is labelled once
C2_Witness ==
  \E e1, e2 \in PassingEvals :
    /\ evaluations[e1].el # evaluations[e2].el
    /\ evaluations[e1].key = evaluations[e2].key
    /\ Cardinality({l \in SuccessLabels :
                      labels[l].key = evaluations[e1].key}) = 1

\* C3: every failing call, first or repeated, puts one error label on its
\* own element, linked to the handle stored in the map for its key, which is
\* the entry created by the first occurrence of the key.
C3_ErrorLabelPerFailingCall ==
  LET F == SelectSeq(evaluations, IsFailing)
      L == SelectSeq(labels, IsErrorLabel)
  IN  /\ Len(L) = Len(F)
      /\ \A j \in DOMAIN L :
           /\ L[j].el = F[j].el
           /\ L[j].text = F[j].contrastRatio
           /\ L[j].error = Get(combinations, F[j].key)
           /\ L[j].error.tag = "error"
           /\ L[j].error.id \in DOMAIN errors
           /\ errors[L[j].error.id].el = evaluations[FirstEval(F[j].key)].el

\* a repeated failing occurrence carries a label linked to the entry of an
\* earlier element
C3_Witness ==
  \E l \in ErrorLabels :
    /\ labels[l].error.tag = "error"
    /\ labels[l].error.id \in DOMAIN errors
    /\ errors[labels[l].error.id].el < labels[l].el

\* C4: when the report function throws on a first-seen failing key, the
\* error leaves runOneType and run(), the map is as the earlier calls left
\* it and holds no entry for the key, so a later occurrence of the key is
\* reported again.
C4_ThrowLeavesKeyUnseen ==
  /\ pc = "thrown" =>
       /\ ~seen(combinations, thrownKey)
       /\ DOMAIN combinations = PassingKeys \cup FailingKeys
       /\ \A m \in DOMAIN errors : errors[m].key # thrownKey
  /\ \A e \in Evals :
       evaluations[e].key = thrownKey =>
         \E m \in DOMAIN errors : errors[m].key = thrownKey

\* the report of a key failed in one run and the key is reported in the next
C4_Witness ==
  /\ thrownKey # <<>>
  /\ \E e \in Evals : evaluations[e].key = thrownKey
  /\ \E m \in DOMAIN errors : errors[m].key = thrownKey

\* C5: during a run the map holds one entry per distinct key and an entry,
\* once created, is neither replaced nor removed by any later step of the
\* run.
C5_EntriesArePermanent ==
  [][pc = "running" =>
       /\ \A k \in DOMAIN combinations :
            k \in DOMAIN combinations' /\ combinations'[k] = combinations[k]
       /\ Cardinality(DOMAIN combinations') <=
            Cardinality({evaluations'[e].key : e \in DOMAIN evaluations'})]_vars

\* a failing key with an entry has been met again
C5_Witness ==
  \E e1, e2 \in FailingEvals :
    /\ e1 < e2
    /\ evaluations[e1].key = evaluations[e2].key
    /\ Get(combinations, evaluations[e1].key).tag = "error"

\* C6: the map belongs to one run: it holds only keys met in the current
\* run, so nothing registered by an earlier run suppresses a report or a
\* success label, and a run over the same elements ends with the same
\* reports and labels as the run before it.
C6_RegistryPerRun ==
  /\ DOMAIN combinations \subseteq PassingKeys \cup FailingKeys
  /\ {errors[m].key : m \in DOMAIN errors} = FailingKeys
  /\ {labels[l].key : l \in SuccessLabels} = PassingKeys
  /\ (pc = "running" /\ i > Len(page) /\ completed >= 1) =>
       (errors = prevErrors /\ labels = prevLabels)

\* a second run over the page has finished its loop after reporting and
\* labelling the keys the first run had registered
C6_Witness ==
  /\ pc = "running"
  /\ i > Len(page)
  /\ completed >= 1
  /\ errors # <<>>
  /\ SuccessLabels # {}

\* the four components of the key of an evaluation
KeyComponents(e) ==
  <<colorToString(e.fgColor), colorToString(e.bgColor), e.blindness,
    e.requiredRatio>>

\* C7: the key is a function of the foreground colour string, the background
\* colour string, the deficiency type and the required ratio: evaluations
\* that agree on the four have equal keys, whatever their element, font size
\* or ratio.
C7_KeyDeterminedByComponents ==
  \A e1, e2 \in Evals :
    KeyComponents(evaluations[e1]) = KeyComponents(evaluations[e2]) =>
      evaluations[e1].key = evaluations[e2].key

\* two elements with different styles of the same size class produced the
\* same key
C7_Witness ==
  \E e1, e2 \in Evals :
    /\ evaluations[e1].el # evaluations[e2].el
    /\ evaluations[e1].style # evaluations[e2].style
    /\ KeyComponents(evaluations[e1]) = KeyComponents(evaluations[e2])

\* the label or report entry that announced the combination of evaluation e:
\* the success label of its key, or the entry its error labels link to
Finding(e) ==
  IF evaluations[e].passed
    THEN <<"label", {l \in SuccessLabels : labels[l].key = evaluations[e].key}>>
    ELSE <<"error", {Get(combinations, evaluations[e].key).id}>>

\* evaluations of the same deficiency and required ratio whose ratios print
\* as the same two decimals
SameRoundedRatio(e1, e2) ==
  /\ evaluations[e1].blindness = evaluations[e2].blindness
  /\ evaluations[e1].requiredRatio = evaluations[e2].requiredRatio
  /\ evaluations[e1].contrastRatio = evaluations[e2].contrastRatio

\* C8 as claimed: two colour pairs whose ratios differ only in the third
\* decimal place, for the same deficiency and required ratio, are one
\* finding.
C8_SameRatioSameFinding ==
  \A e1, e2 \in Evals :
    (/\ SameRoundedRatio(e1, e2)
     /\ evaluations[e1].raw # evaluations[e2].raw
     /\ evaluations[e1].raw \div 10 = evaluations[e2].raw \div 10)
    => Finding(e1) = Finding(e2)

\* C8 amended: evaluations of the same deficiency and required ratio are one
\* finding exactly when their foreground and background colour strings are
\* equal; colour pairs with different strings each get their own report
\* entry or success label, also when their ratios print as the same two
\* decimals.
C8_SameColoursSameFinding ==
  \A e1, e2 \in Evals :
    SameRoundedRatio(e1, e2) =>
      (Finding(e1) = Finding(e2) <=>
         /\ colorToString(evaluations[e1].fgColor) =
              colorToString(evaluations[e2].fgColor)
         /\ colorToString(evaluations[e1].bgColor) =
              colorToString(evaluations[e2].bgColor))

\* two different colour pairs whose ratios differ in the third decimal only
\* were evaluated for the same deficiency and required ratio
C8_Witness ==
  \E e1, e2 \in FailingEvals :
    /\ SameRoundedRatio(e1, e2)
    /\ evaluations[e1].raw # evaluations[e2].raw
    /\ evaluations[e1].raw \div 10 = evaluations[e2].raw \div 10
    /\ evaluations[e1].fgColor # evaluations[e2].fgColor
    /\ Finding(e1) # Finding(e2)

\* the required ratio "3.0" or "4.5" as a number of hundredths
Threshold(required) == IF required = <<"3", ".", "0">> THEN 300 ELSE 450

\* the ratio rounded to two decimals, as a number of hundredths
Rounded(raw) == (raw + 5) \div 10

\* C9: the decision passes exactly when the two-decimal ratio, as a number,
\* is at least the required ratio, as a number: 4.50 passes "4.5", 4.49
\* fails it, 3.00 passes "3.0", 10.00 and 21.00 pass "4.5".
C9_NumericInclusiveThreshold ==
  decision.done =>
    /\ decision.passed <=>
         Rounded(decision.raw) >= Threshold(decision.requiredRatio)
    /\ (decision.contrastRatio = <<"4", ".", "5", "0">> /\
        decision.requiredRatio = <<"4", ".", "5">>) => decision.passed
    /\ (decision.contrastRatio = <<"4", ".", "4", "9">> /\
        decision.requiredRatio = <<"4", ".", "5">>) => ~decision.passed
    /\ (decision.contrastRatio = <<"3", ".", "0", "0">> /\
        decision.requiredRatio = <<"3", ".", "0">>) => decision.passed
    /\ (decision.contrastRatio \in {<<"1", "0", ".", "0", "0">>,
                                    <<"2", "1", ".", "0", "0">>})
         => decision.passed

\* a ratio of 10.00, which sorts before "4.5" as a string, was decided
\* against "4.5"
C9_Witness ==
  /\ decision.done
  /\ decision.contrastRatio = <<"1", "0", ".", "0", "0">>
  /\ decision.requiredRatio = <<"4", ".", "5">>
  /\ decision.passed

\* the last n characters of a string
Suffix(s, n) == SubSeq(s, Len(s) - n + 1, Len(s))

\* C10: the required ratio of every evaluation is "3.0" when the style is
\* large text (24px, or bold from 19.2px) and "4.5" for every other style,
\* unreadable sizes included, and it is both the last component of the key
\* and the threshold the pass/fail decision of that evaluation applied.
C10_RequiredRatioIsThresholdApplied ==
  \A e \in Evals :
    LET s == evaluations[e]
        large == s.style.px >= 24 \/ (s.style.bold /\ s.style.px >= 20)
    IN  /\ s.requiredRatio \in {<<"3", ".", "0">>, <<"4", ".", "5">>}
        /\ s.requiredRatio = <<"3", ".", "0">> <=> large
        /\ Suffix(s.key, 4) = <<"/">> \o s.requiredRatio
        /\ s.passed <=> ToNumber(s.contrastRatio) >= ToNumber(s.requiredRatio)

\* the same colours were decided both ways in one run: insufficient for a
\* style without a readable size, acceptable for large text
C10_Witness ==
  \E e1, e2 \in Evals :
    /\ evaluations[e1].style.px < 0
    /\ ~evaluations[e1].passed
    /\ evaluations[e2].requiredRatio = <<"3", ".", "0">>
    /\ evaluations[e2].passed
    /\ evaluations[e1].fgColor = evaluations[e2].fgColor
    /\ evaluations[e1].bgColor = evaluations[e2].bgColor
    /\ evaluations[e1].blindness = evaluations[e2].blindness

\* ---- blind ----

\* C11: the colour blind returns carries the alpha of the colour it was
\* given, for every colour and deficiency, and the colour object passed in
\* has the same four channel values after the call as before it.
C11_BlindKeepsAlphaAndArgument ==
  simulation.done =>
    /\ simulation.result.alpha = simulation.given.alpha
    /\ simulation.color = simulation.given

C11_Witness ==
  /\ simulation.done
  /\ simulation.library
  /\ simulation.given = Color(149, 149, 149, 50)
  /\ simulation.result.red # simulation.given.red
  /\ simulation.result.alpha = 50

\* the channels of a transform result and the fields they are returned in
Channels == {<<"R", "red">>, <<"G", "green">>, <<"B", "blue">>}

\* n is x with its fraction cut off towards zero
IsTruncationOf(n, x) ==
  /\ x.milli >= 0 =>
       (n >= 0 /\ 1000 * n <= x.milli /\ x.milli < 1000 * n + 1000)
  /\ x.milli < 0 =>
       (n <= 0 /\ 1000 * n >= x.milli /\ x.milli > 1000 * n - 1000)

\* n is x clamped into 0..255 and then floored
IsClampedFloorOf(n, x) ==
  /\ x.milli < 0 => n = 0
  /\ x.milli > 255000 => n = 255
  /\ (x.milli >= 0 /\ x.milli <= 255000) =>
        (1000 * n <= x.milli /\ x.milli < 1000 * n + 1000)

ValidColor(c) ==
  /\ c.red \in 0..255
  /\ c.green \in 0..255
  /\ c.blue \in 0..255

\* C13: an evaluation given a colour with a channel outside 0..255 fails
\* fast with an error: it produces no sample, no report, no label and no
\* registry entry.
C13_InvalidColourFailsFast ==
  (/\ evaluation.done
   /\ ~(ValidColor(evaluation.fgColor) /\ ValidColor(evaluation.bgColor)))
    => /\ evaluation.threw
       /\ evaluation.sample = <<>>
       /\ evaluation.reports = <<>>
       /\ ~evaluation.labelled
       /\ evaluation.combinations = EmptyMap

C16_SameColourFails ==
  (evaluation.done /\ evaluation.fgColor = evaluation.bgColor) =>
    /\ evaluation.sample.contrastRatio = <<"1", ".", "0", "0">>
    /\ ~evaluation.sample.passed
    /\ Len(evaluation.reports) = 1
    /\ Get(evaluation.combinations, evaluation.sample.key).tag = "error"

C16_Witness ==
  /\ evaluation.done
  /\ evaluation.fgColor = Grey
  /\ evaluation.bgColor = Grey
  /\ evaluation.style = LargeText
  /\ evaluation.blindness = 3
  /\ evaluation.sample.requiredRatio = <<"3", ".", "0">>
  /\ ~evaluation.sample.passed
  /\ Len(evaluation.reports) = 1

\* ---- the loop of run() ----

Relevant(n) == ElementPool[page[n]].skip = "none"

\* number of elements before position n that are not skipped
RelevantBefore(n) == Cardinality({m \in 1..(n - 1) : Relevant(m)})

\* position of a deficiency in blindnesses
BlindnessIndex(name) ==
  CHOOSE t \in DOMAIN blindnesses : blindnesses[t][1] = name

\* C17: every element that is not skipped is evaluated exactly three times,
\* for protan, deutan and tritan in this order, all three before the next
\* element; a skipped element causes no evaluation, report, label or
\* registry entry.
C17_ThreeEvaluationsInOrder ==
  /\ Len(evaluations) = 3 * RelevantBefore(i) + (b - 1)
  /\ \A j \in Evals :
       /\ Relevant(evaluations[j].el)
       /\ j = 3 * RelevantBefore(evaluations[j].el) +
              BlindnessIndex(evaluations[j].blindness)
  /\ \A j \in Evals : j % 3 = 1 => evaluations[j].blindness = Protan
  /\ \A j \in Evals : j % 3 = 2 => evaluations[j].blindness = Deutan
  /\ \A j \in Evals : j % 3 = 0 => evaluations[j].blindness = Tritan
  /\ \A l \in DOMAIN labels : Relevant(labels[l].el)
  /\ \A r \in DOMAIN errors : Relevant(errors[r].el)
  /\ DOMAIN combinations \subseteq {evaluations[j].key : j \in Evals}

C17_Witness ==
  /\ pc = "idle"
  /\ completed = 1
  /\ Len(page) = 2
  /\ ~Relevant(1)
  /\ Relevant(2)
  /\ Len(evaluations) = 3
  /\ evaluations[1].blindness = Protan
  /\ evaluations[2].blindness = Deutan
  /\ evaluations[3].blindness = Tritan
  /\ \A j \in Evals : evaluations[j].el = 2

\* C18: while run() executes, parsing "transparent" yields (0, 0, 0, 0) and
\* every other string is answered by the parser that was installed when run()
\* was called; once run() has returned normally parseColor is that parser
\* again, after each of several successive runs.
C18_OverrideIsTemporary ==
  /\ pc = "running" =>
       /\ parseColor = savedParseColor + 1
       /\ parseColorAt(parseColor, "transparent") = Color(0, 0, 0, 0)
       /\ \A str \in ColorStrings \ {"transparent"} :
            parseColorAt(parseColor, str) =
              parseColorAt(savedParseColor, str)
  /\ pc = "idle" => parseColor = savedParseColor
  /\ (pc = "idle" /\ thrownKey = <<>>) =>
       /\ parseColor = 0
       /\ \A str \in ColorStrings :
            parseColorAt(parseColor, str) = originalParseColor(str)

C18_Witness ==
  /\ pc = "idle"
  /\ completed = 2
  /\ thrownKey = <<>>
  /\ parseColor = 0
  /\ parseColorAt(parseColor, "transparent") = NoColor

\* C19: the handle given to an error label is always the report entry made
\* for the label's key, never the value true: no key is registered as
\* passing and also met as failing, or the reverse, within a run.
C19_FailingKeyHasReportHandle ==
  /\ \A l \in ErrorLabels :
       /\ labels[l].error.tag = "error"
       /\ labels[l].error.id \in DOMAIN errors
       /\ errors[labels[l].error.id].key = labels[l].key
  /\ PassingKeys \cap FailingKeys = {}
  /\ \A k \in DOMAIN combinations :
       /\ combinations[k].tag = "true" => k \notin FailingKeys
       /\ combinations[k].tag = "error" => k \notin PassingKeys

C19_Witness ==
  \E e \in PassingEvals, f \in FailingEvals, l \in ErrorLabels :
    /\ evaluations[e].fgColor = evaluations[f].fgColor
    /\ evaluations[e].bgColor = evaluations[f].bgColor
    /\ evaluations[e].blindness = evaluations[f].blindness
    /\ e < f
    /\ labels[l].key = evaluations[f].key
    /\ labels[l].error.tag = "error"
    /\ Get(combinations, evaluations[e].key).tag = "true"

\* C20: the override never outlives run(): however run() ends, also when a
\* collaborator throws, parseColor is afterwards the parser that was
\* installed when run() was called.
C20_OverrideNeverOutlivesRun ==
  pc # "running" => parseColor = savedParseColor
====
